---- MODULE Spec2Model ----
(***************************************************************************)
(* Model of OutHighPriority.c (Saturn, HPSDR protocol 2 emulation): the    *)
(* thread OutgoingHighPriority that sends the "outgoing high priority"     *)
(* status datagram, together with the parties that share state with it:    *)
(* the controlling process (SDRActive, Cmdid, Portid, reply_addr,          *)
(* MOXAsserted), the FPGA registers it reads, the other threads that OR    *)
(* bits into GlobalFIFOOverflows, and the network.                         *)
(*                                                                         *)
(* Every statement of the thread that touches shared state is one step of  *)
(* the thread (pc is its position); statements on locals are folded into   *)
(* the step before them.                                                   *)
(***************************************************************************)
EXTENDS Integers, Sequences, FiniteSets, TLC

\* ------------------------------------------------------------------ bounds
\* frames built per Running episode (caps SequenceCounter)
MaxSeq == 3
\* start commands the controller issues (false -> true on SDRActive)
MaxStarts == 2
\* change-destination commands the controller issues
MaxCmds == 2
\* key/PTT changes the hardware makes
MaxKeyChanges == 2
\* sticky-overflow ORs the other threads make
MaxStickySets == 2
\* FIFO monitor events (flag raised or depth changed) the hardware makes
MaxFifoEvents == 2
\* usleep(500) calls counted after a stop the thread has not yet seen
MaxStale == 2

\* ------------------------------------------------------- program constants
VHIGHPRIOTIYFROMSDRSIZE == 60
VBITCHANGEPORT == 1
\* another command bit of Cmdid, owned by the controller
VBITOTHERCMD == 2
\* SleepCount = (MOXAsserted)? 2: 400
SleepShort == 2
SleepLong == 400
\* uint8_t, uint16_t, uint32_t
Byte8 == 256
Word16 == 65536

\* EDMAStreamSelect
eRXDDCDMA == 0
eTXDUCDMA == 1
eMicCodecDMA == 2
eSpkCodecDMA == 3
DMAChannels == {eRXDDCDMA, eTXDUCDMA, eMicCodecDMA, eSpkCodecDMA}

\* ------------------------------------------------------------ input sets
Ports == {1024, 1025}
\* struct sockaddr_in values: the PC's port and address
Addrs == {[port |-> 1024, ip |-> "pcA"], [port |-> 1025, ip |-> "pcB"]}
\* struct sockaddr_in DestAddr, not initialised
NoAddr == [port |-> 0, ip |-> "none"]
\* GetP2PTTKeyInputs: bit 0 PTT, bit 1 dot, bit 2 dash, bit 4 PLL locked
KeyVals == {16, 17}
\* bits the other threads OR into GlobalFIFOOverflows
StickyBits == {1, 16}
\* raw FIFO depths the monitor reports
DepthVals == {0, 9, 10}
\* raw values near and beyond the points where a scaled count passes 2^16
WideDepthVals == {16383, 16384, 49152, 65535}
FlagNames == {"Overflow", "OverThreshold", "Underflow"}
\* GetUserIOBits values: bit 2 set, bit 2 clear
UserIOVals == {4, 11}

\* ------------------------------------------------------------ arithmetic
Bit(v, i) == (v \div (2 ^ i)) % 2

\* a & b, a | b, a & ~b on unsigned values below 2^16
RECURSIVE BitAndFrom(_, _, _)
BitAndFrom(a, b, i) ==
  IF i < 0 THEN 0
  ELSE (2 ^ i) * (Bit(a, i) * Bit(b, i)) + BitAndFrom(a, b, i - 1)
BitAnd(a, b) == BitAndFrom(a, b, 15)
RECURSIVE BitOrFrom(_, _, _)
BitOrFrom(a, b, i) ==
  IF i < 0 THEN 0
  ELSE (2 ^ i) * (IF Bit(a, i) + Bit(b, i) > 0 THEN 1 ELSE 0) + BitOrFrom(a, b, i - 1)
BitOr(a, b) == BitOrFrom(a, b, 15)
BitClear(a, b) == a - BitAnd(a, b)

\* *(uint8_t *)(buf+off) = v
Put8(buf, off, v) == [buf EXCEPT ![off] = v % Byte8]
\* *(uint16_t *)(buf+off) = htons(v): most significant byte first
Put16(buf, off, v) ==
  [buf EXCEPT ![off] = (v % Word16) \div Byte8, ![off + 1] = v % Byte8]
\* A uint32_t is held as its two 16-bit halves, value hi * 2^16 + lo: the
\* model checker's integers end at 2^31 - 1.
U32(hi, lo) == [hi |-> hi, lo |-> lo]
Zero32 == U32(0, 0)
\* v + 1 on a uint32_t
Inc32(v) ==
  IF v.lo = Word16 - 1 THEN U32((v.hi + 1) % Word16, 0) ELSE U32(v.hi, v.lo + 1)
\* *(uint32_t *)(buf+off) = htonl(v): most significant byte first
Put32(buf, off, v) ==
  [buf EXCEPT ![off] = v.hi \div Byte8,
              ![off + 1] = v.hi % Byte8,
              ![off + 2] = v.lo \div Byte8,
              ![off + 3] = v.lo % Byte8]
\* what a receiver reads back: ntohs, ntohl
Get16(buf, off) == buf[off] * Byte8 + buf[off + 1]
Get32(buf, off) == U32(Get16(buf, off), Get16(buf, off + 2))

\* memset(UDPBuffer, 0, sizeof(UDPBuffer))
ZeroBuffer == [i \in 0 .. (VHIGHPRIOTIYFROMSDRSIZE - 1) |-> 0]
\* uint8_t UDPBuffer[VHIGHPRIOTIYFROMSDRSIZE], not initialised: whatever the
\* stack held, here either zeros or a pattern of set bits
StackGarbage == [i \in 0 .. (VHIGHPRIOTIYFROMSDRSIZE - 1) |-> 165]

\* --------------------------------------------------------------- state
VARIABLES
  pc,                  \* position of the thread in OutgoingHighPriority
  Active,              \* ThreadData->Active
  Cmdid,               \* ThreadData->Cmdid
  Portid,              \* ThreadData->Portid, the configured port
  Socketid,            \* ThreadData->Socketid, a socket handle
  sockOpen,            \* whether the socket Socketid names is open
  sockPort,            \* the port the socket Socketid names is bound to
  SDRActive,           \* global run flag
  MOXAsserted,         \* global: transmitter keyed
  reply_addr,          \* global: address of the PC
  ThreadError,         \* global fault indicator
  GlobalFIFOOverflows, \* global sticky overflow byte
  hwKey,               \* FPGA status register: key/PTT input bits
  hwUserIO,            \* FPGA: user I/O bits
  hwFifo,              \* FPGA FIFO monitor, per channel: latched flags, depth
  hwADC,               \* FPGA: latched ADC overflow bits
  hwAnalogue,          \* FPGA: the six analogue inputs
  InitError,           \* locals of the thread
  SequenceCounter,
  UDPBuffer,
  iov_len,
  DestAddr,
  PTTBits,
  Byte,
  FIFOOverflows,
  Error,
  SleepCount,
  CmdTmp,              \* the value of Cmdid loaded by "Cmdid &= ~VBITCHANGEPORT"
  obs                  \* history: what the thread has done, for the properties

progVars ==
  <<pc, Active, Cmdid, Portid, Socketid, sockOpen, sockPort, SDRActive,
    MOXAsserted, reply_addr, ThreadError, GlobalFIFOOverflows, hwKey, hwUserIO,
    hwFifo, hwADC, hwAnalogue, InitError, SequenceCounter, UDPBuffer, iov_len, DestAddr, PTTBits,
    Byte, FIFOOverflows, Error, SleepCount, CmdTmp>>
vars == <<progVars, obs>>

\* the controller's variables, the hardware's, and the thread's own
ctlVars == <<Cmdid, Portid, SDRActive, MOXAsserted, reply_addr>>
hwVars == <<hwKey, hwUserIO, hwFifo, hwADC, hwAnalogue>>
sockVars == <<Socketid, sockOpen, sockPort>>
localVars ==
  <<InitError, SequenceCounter, UDPBuffer, iov_len, DestAddr, PTTBits, Byte,
    FIFOOverflows, Error, SleepCount, CmdTmp>>

NoFlags == [f \in FlagNames |-> FALSE]
NoFrame == [sent |-> FALSE]
NoSeq == [none |-> TRUE]

\* the lifecycle states of the thread
ArmedWaiting == "ArmedWaiting"
Running == "Running"
ErrorShutdown == "ErrorShutdown"

NoCycle ==
  [flags |-> [c \in DMAChannels |-> NoFlags],
   depth |-> [c \in DMAChannels |-> 0], sticky |-> 0, mask |-> 0,
   built |-> FALSE, restart |-> FALSE]

Init ==
  /\ pc = "init"
  /\ Active = FALSE
  /\ Cmdid \in {0, VBITCHANGEPORT}
  /\ Portid = 1024
  /\ Socketid = 1
  /\ sockOpen = TRUE
  /\ sockPort = Portid
  /\ SDRActive = FALSE
  /\ MOXAsserted \in BOOLEAN
  /\ reply_addr = [port |-> 1024, ip |-> "pcA"]
  /\ ThreadError = FALSE
  /\ GlobalFIFOOverflows = 0
  /\ hwKey = 16
  /\ hwUserIO = 4
  /\ hwFifo = [c \in DMAChannels |-> [flags |-> NoFlags, depth |-> 0]]
  /\ hwADC = 0
  /\ hwAnalogue = [i \in 0 .. 5 |-> 4096 * (i + 1) + 16 * i + 1]
  /\ InitError = FALSE
  /\ SequenceCounter = Zero32
  /\ UDPBuffer \in {ZeroBuffer, StackGarbage}
  /\ iov_len = 0
  /\ DestAddr = NoAddr
  /\ PTTBits = 0
  /\ Byte = 0
  /\ FIFOOverflows = 0
  /\ Error = 0
  /\ SleepCount = 0
  /\ CmdTmp = 0
  /\ obs = [phase |-> ArmedWaiting,   \* lifecycle state
            seenActive |-> FALSE,     \* SDRActive as the thread last read it
            restartPending |-> FALSE, \* the controller restarted the radio; no frame built since was sent
            episode |-> 0,            \* start transitions the thread has made
            built |-> 0,              \* frames built in this episode
            prevCounter |-> Zero32,       \* SequenceCounter when the last start reset it
            lastSeq |-> NoSeq,        \* sequence number of the last frame sent in this episode
            fails |-> 0,              \* sendmsg failures
            errSets |-> 0,            \* writes of true to ThreadError
            builtAfterFail |-> FALSE, \* a frame was built after a sendmsg failure
            closes |-> 0,             \* close() calls of the command handler
            opens |-> 0,              \* MakeSocket() calls of the command handler
            clears |-> 0,             \* times the handler cleared VBITCHANGEPORT
            ticks |-> 0,              \* usleep(500) calls of the current wait
            waitEnd |-> "none",       \* how the last wait ended
            waitMOX |-> FALSE,        \* MOXAsserted as read for the current wait
            cycle |-> NoCycle,        \* FIFO aggregation of the frame being built
            prevCycle |-> NoCycle,    \* and of the frame before it, same episode
            owed |-> {},              \* sticky bits set and not yet sent in a frame
            carried |-> {},           \* those of them the frame being built carries
            last |-> NoFrame,         \* the last datagram sendmsg accepted
            atuCalls |-> 0,           \* RequestATUTune calls of the current cycle
            atuValue |-> FALSE,       \* and the value of the last of them
            otherCmd |-> FALSE,       \* the controller has set VBITOTHERCMD
            copied |-> NoAddr,        \* DestAddr as the last start's memcpy left it
            afterStop |-> 0,          \* frames sent since the controller stopped the radio
            stale |-> 0,              \* usleep(500) calls made in the main loop since then,
                                      \* counted up to MaxStale
            starts |-> 0,             \* events of the environment, counted;
                                      \* cmds counts a command pending at the start
            cmds |-> IF Cmdid = 0 THEN 0 ELSE 1,
            keyChanges |-> 0,
            stickySets |-> 0,
            fifoEvents |-> 0]

\* ------------------------------------------------- the thread, line by line

\* ThreadData->Active = true; InitError is false, the outer loop is entered
ThreadStart ==
  /\ pc = "init"
  /\ Active' = TRUE
  /\ pc' = "idle"
  /\ UNCHANGED <<ctlVars, hwVars, sockVars, localVars, ThreadError,
                 GlobalFIFOOverflows, obs>>

\* an idle loop that does not look at the run flag
IdleConditionAlways(active) == TRUE

\* an idle loop that is left when the run flag is false
IdleConditionInverted(active) == active

\* !(SDRActive)
IdleCondition(active) == ~active

\* while(!(SDRActive))
IdleCheck ==
  /\ pc = "idle"
  /\ pc' = IF IdleCondition(SDRActive) THEN "cmdchk" ELSE "startrun"
  /\ obs' = [obs EXCEPT !.seenActive = SDRActive]
  /\ UNCHANGED <<Active, ctlVars, hwVars, sockVars, localVars, ThreadError,
                 GlobalFIFOOverflows>>

\* a handler that runs without a command
ChangePortPendingAlways(cmd) == TRUE

\* a test of the wrong command bit
ChangePortPendingWrongBit(cmd) == BitAnd(cmd, VBITOTHERCMD) # 0

\* ThreadData->Cmdid & VBITCHANGEPORT
ChangePortPending(cmd) == BitAnd(cmd, VBITCHANGEPORT) # 0

\* if(ThreadData->Cmdid & VBITCHANGEPORT) ...; else usleep(100)
CmdCheck ==
  /\ pc = "cmdchk"
  /\ pc' = IF ChangePortPending(Cmdid) THEN "close" ELSE "idle"
  /\ UNCHANGED <<Active, ctlVars, hwVars, sockVars, localVars, ThreadError,
                 GlobalFIFOOverflows, obs>>

\* close(ThreadData->Socketid)
CloseOld ==
  /\ pc = "close"
  /\ sockOpen' = FALSE
  /\ pc' = "mksock"
  /\ obs' = [obs EXCEPT !.closes = @ + 1]
  /\ UNCHANGED <<Active, ctlVars, hwVars, Socketid, sockPort, localVars,
                 ThreadError, GlobalFIFOOverflows>>

\* MakeSocket(ThreadData, 0): a new socket, bound to ThreadData->Portid
MakeSocket ==
  /\ pc = "mksock"
  /\ Socketid' = Socketid + 1
  /\ sockOpen' = TRUE
  /\ sockPort' = Portid
  /\ pc' = "clrload"
  /\ obs' = [obs EXCEPT !.opens = @ + 1]
  /\ UNCHANGED <<Active, ctlVars, hwVars, localVars, ThreadError,
                 GlobalFIFOOverflows>>

\* ThreadData->Cmdid &= ~VBITCHANGEPORT, the load
ClearCmdLoad ==
  /\ pc = "clrload"
  /\ CmdTmp' = Cmdid
  /\ pc' = "clrstore"
  /\ UNCHANGED <<Active, ctlVars, hwVars, sockVars, InitError, SequenceCounter,
                 UDPBuffer, iov_len, DestAddr, PTTBits, Byte, FIFOOverflows,
                 Error, SleepCount, ThreadError, GlobalFIFOOverflows, obs>>

\* the value "Cmdid &= ~VBITCHANGEPORT" stores
ClearedCmd(cmd) == BitClear(cmd, VBITCHANGEPORT)

\* ThreadData->Cmdid &= ~VBITCHANGEPORT, the store; usleep(100)
ClearCmdStore ==
  /\ pc = "clrstore"
  /\ Cmdid' = ClearedCmd(CmdTmp)
  /\ pc' = "idle"
  /\ obs' = [obs EXCEPT !.clears = @ + 1]
  /\ UNCHANGED <<Active, Portid, SDRActive, MOXAsserted, reply_addr, hwVars,
                 sockVars, localVars, ThreadError, GlobalFIFOOverflows>>

\* SequenceCounter = 0
ResetCounter(counter) == Zero32

\* a start that leaves the packet as it was
ClearedBufferKeep(buf) == buf

\* memset(UDPBuffer, 0,sizeof(UDPBuffer)): clear the whole packet
ClearedBuffer(buf) == ZeroBuffer

\* run has been initiated: SequenceCounter = 0, and memcpy(&DestAddr,
\* &reply_addr, ...) begins: the copy is not atomic, the port (sin_port) is
\* read before the address (sin_addr)
StartRun ==
  /\ pc = "startrun"
  /\ SequenceCounter' = ResetCounter(SequenceCounter)
  /\ DestAddr' = [DestAddr EXCEPT !.port = reply_addr.port]
  /\ pc' = "copyaddr"
  /\ obs' = [obs EXCEPT !.phase = Running,
                        !.episode = @ + 1,
                        !.prevCounter = SequenceCounter,
                        !.lastSeq = NoSeq,
                        !.built = 0,
                        !.cycle = NoCycle,
                        !.prevCycle = NoCycle,
                        !.last = NoFrame]
  /\ UNCHANGED <<Active, ctlVars, hwVars, sockVars, InitError, UDPBuffer,
                 iov_len, PTTBits, Byte, FIFOOverflows, Error, SleepCount,
                 CmdTmp, ThreadError, GlobalFIFOOverflows>>

\* the rest of the memcpy, then the outgoing packet is initialised: the
\* buffer is cleared and the iovec and msghdr are set up
CopyAddr ==
  /\ pc = "copyaddr"
  /\ DestAddr' = [DestAddr EXCEPT !.ip = reply_addr.ip]
  /\ UDPBuffer' = ClearedBuffer(UDPBuffer)
  /\ iov_len' = VHIGHPRIOTIYFROMSDRSIZE
  /\ pc' = "loop"
  /\ obs' = [obs EXCEPT !.copied = DestAddr']
  /\ UNCHANGED <<Active, ctlVars, hwVars, sockVars, InitError, SequenceCounter,
                 PTTBits, Byte, FIFOOverflows, Error, SleepCount, CmdTmp,
                 ThreadError, GlobalFIFOOverflows>>

\* a loop that goes on after a failed send
LoopConditionNoError(active, err) == active

\* a loop that does not look at the run flag
LoopConditionIgnoreStop(active, err) == ~err

\* SDRActive && !InitError
LoopCondition(active, err) == active /\ ~err

\* a thread that ends when the radio is stopped
OuterLoopConditionOnce(err) == FALSE

\* while (!InitError)
OuterLoopCondition(err) == ~err

\* while(SDRActive && !InitError), and on leaving it while (!InitError);
\* SleepCount and PTTBits are locals of the loop's body and end with it
MainLoop ==
  /\ pc = "loop"
  /\ pc' = IF LoopCondition(SDRActive, InitError) THEN "build"
           ELSE IF OuterLoopCondition(InitError) THEN "idle"
           ELSE "tidy"
  /\ SleepCount' = 0
  /\ PTTBits' = 0
  /\ obs' = IF LoopCondition(SDRActive, InitError)
            THEN [obs EXCEPT !.phase = Running,
                             !.seenActive = SDRActive,
                             !.ticks = 0,
                             !.waitEnd = "none",
                             !.waitMOX = FALSE,
                             !.atuCalls = 0,
                             !.atuValue = FALSE]
            ELSE [obs EXCEPT !.phase = IF OuterLoopCondition(InitError)
                                       THEN ArmedWaiting ELSE ErrorShutdown,
                             !.seenActive = SDRActive,
                             !.ticks = 0,
                             !.waitEnd = "none",
                             !.waitMOX = FALSE,
                             !.built = 0,
                             !.lastSeq = NoSeq,
                             !.cycle = NoCycle,
                             !.prevCycle = NoCycle,
                             !.last = NoFrame,
                             !.afterStop = 0,
                             !.stale = 0,
                             !.atuCalls = 0,
                             !.atuValue = FALSE]
  /\ UNCHANGED <<Active, ctlVars, hwVars, sockVars, InitError, SequenceCounter,
                 UDPBuffer, iov_len, DestAddr, Byte, FIFOOverflows, Error,
                 CmdTmp, ThreadError, GlobalFIFOOverflows>>

\* a counter that steps by two
NextSequenceSkip(counter) == Inc32(Inc32(counter))

\* SequenceCounter++ on a uint32_t
NextSequence(counter) == Inc32(counter)

\* (uint16_t)GetAnalogueIn(AnalogueSelect)
GetAnalogueIn(AnalogueSelect) == hwAnalogue[AnalogueSelect] % Word16

\* the packet after lines 116-137, from the registers as they are now
EncodeStatus(buf) ==
  LET b0 == Put32(buf, 0, SequenceCounter)
      b1 == Put8(b0, 4, hwKey)
      b2 == Put8(b1, 5, hwADC)
      b3 == Put16(b2, 6, GetAnalogueIn(4))
      b4 == Put16(b3, 14, GetAnalogueIn(0))
      b5 == Put16(b4, 22, GetAnalogueIn(1))
      b6 == Put16(b5, 49, GetAnalogueIn(5))
      b7 == Put16(b6, 57, GetAnalogueIn(2))
      b8 == Put16(b7, 55, GetAnalogueIn(3))
  IN  Put8(b8, 59, hwUserIO)

\* create the packet: sequence count, PTT bits, ADC overflow, analogue
\* inputs, user I/O bits
BuildFrame ==
  /\ pc = "build"
  /\ obs.built < MaxSeq
  /\ UDPBuffer' = EncodeStatus(UDPBuffer)
  /\ SequenceCounter' = NextSequence(SequenceCounter)
  /\ PTTBits' = hwKey % Byte8
  /\ Byte' = hwUserIO % Byte8
  /\ hwADC' = 0
  /\ pc' = "fifo"
  /\ obs' = [obs EXCEPT !.built = @ + 1,
                        !.builtAfterFail = @ \/ obs.fails > 0,
                        !.prevCycle = obs.cycle,
                        !.cycle = [NoCycle EXCEPT !.restart = obs.restartPending]]
  /\ UNCHANGED <<Active, ctlVars, hwKey, hwUserIO, hwFifo, hwAnalogue, sockVars,
                 InitError, iov_len, DestAddr, FIFOOverflows, Error, SleepCount,
                 CmdTmp, ThreadError, GlobalFIFOOverflows>>

\* ReadFIFOMonitorChannel(Channel, ...): the value left in Word
FIFOWord(Channel) == hwFifo[Channel].depth % Word16
FIFOFlag(Channel, f) == hwFifo[Channel].flags[f]

\* a DUC count whose product is cut to 16 bits before the division
DUCSamplesTruncFirst(Word) == ((Word * 4) % Word16) \div 3

\* a DUC count rounded to the nearest sample
DUCSamplesRounded(Word) == ((Word * 4 + 2) \div 3) % Word16

\* the sample counts written at offsets 31, 33, 35, 37
DDCSamples(Word) == Word
MicSamples(Word) == (Word * 4) % Word16
DUCSamples(Word) == ((Word * 4) \div 3) % Word16
SpkSamples(Word) == (Word * 2) % Word16

\* a DUC bit set by the plain overflow flag
DUCBitOnOverflow == IF FIFOFlag(eTXDUCDMA, "Overflow") THEN 4 ELSE 0

\* the bit each channel contributes to FIFOOverflows
DDCBit == IF FIFOFlag(eRXDDCDMA, "OverThreshold") THEN 1 ELSE 0
MicBit == IF FIFOFlag(eMicCodecDMA, "OverThreshold") THEN 2 ELSE 0
DUCBit == IF FIFOFlag(eTXDUCDMA, "Underflow") THEN 4 ELSE 0
SpkBit == IF FIFOFlag(eSpkCodecDMA, "Underflow") THEN 8 ELSE 0

\* FIFOOverflows = 0, then the four channels' bits ORed in
SampledOverflows == BitOr(BitOr(DDCBit, MicBit), BitOr(DUCBit, SpkBit))

\* send FIFO depths and error states: the four monitor channels are read,
\* and each read clears the channel's latched flags
ReadFIFOs ==
  /\ pc = "fifo"
  /\ UDPBuffer' =
       Put16(Put16(Put16(Put16(UDPBuffer,
         31, DDCSamples(FIFOWord(eRXDDCDMA))),
         33, MicSamples(FIFOWord(eMicCodecDMA))),
         35, DUCSamples(FIFOWord(eTXDUCDMA))),
         37, SpkSamples(FIFOWord(eSpkCodecDMA)))
  /\ FIFOOverflows' = SampledOverflows
  /\ hwFifo' = [c \in DMAChannels |-> [hwFifo[c] EXCEPT !.flags = NoFlags]]
  /\ pc' = "sticky"
  /\ obs' = [obs EXCEPT !.cycle = [@ EXCEPT !.flags = [c \in DMAChannels |-> hwFifo[c].flags],
                                            !.depth = [c \in DMAChannels |-> hwFifo[c].depth],
                                            !.built = TRUE]]
  /\ UNCHANGED <<Active, ctlVars, hwKey, hwUserIO, hwADC, hwAnalogue, sockVars,
                 InitError, SequenceCounter, iov_len, DestAddr, PTTBits, Byte,
                 Error, SleepCount, CmdTmp, ThreadError, GlobalFIFOOverflows>>

\* a mask byte ORed into the packet, which keeps the bits of the frame before
WriteMaskAccumulate(buf, mask) == Put8(buf, 30, BitOr(buf[30], mask))

\* *(uint8_t *)(UDPBuffer+30) = FIFOOverflows
WriteMask(buf, mask) == Put8(buf, 30, mask)

\* the sticky bits among those of a byte
StickyIn(v) == {b \in StickyBits : BitAnd(v, b) # 0}

\* FIFOOverflows |= GlobalFIFOOverflows; the byte goes into the packet
ReadSticky ==
  /\ pc = "sticky"
  /\ FIFOOverflows' = BitOr(FIFOOverflows, GlobalFIFOOverflows)
  /\ UDPBuffer' = WriteMask(UDPBuffer, BitOr(FIFOOverflows, GlobalFIFOOverflows))
  /\ pc' = "clrsticky"
  /\ obs' = [obs EXCEPT !.cycle = [@ EXCEPT !.sticky = GlobalFIFOOverflows,
                                            !.mask = UDPBuffer'[30]],
                        !.carried = obs.owed \cap StickyIn(GlobalFIFOOverflows)]
  /\ UNCHANGED <<Active, ctlVars, hwVars, sockVars, InitError, SequenceCounter,
                 iov_len, DestAddr, PTTBits, Byte, Error, SleepCount, CmdTmp,
                 ThreadError, GlobalFIFOOverflows>>

\* GlobalFIFOOverflows = 0; FIFOOverflows = 0
ClearSticky ==
  /\ pc = "clrsticky"
  /\ GlobalFIFOOverflows' = 0
  /\ FIFOOverflows' = 0
  /\ pc' = "send"
  /\ UNCHANGED <<Active, ctlVars, hwVars, sockVars, InitError, SequenceCounter,
                 UDPBuffer, iov_len, DestAddr, PTTBits, Byte, Error, SleepCount,
                 CmdTmp, ThreadError, obs>>

\* a destination read from the global at every send
MsgNameGlobal(copy, global) == global

\* datagram.msg_name = &DestAddr: the address sendmsg sends to
MsgName(copy, global) == copy

\* Error = sendmsg(ThreadData -> Socketid, &datagram, 0): the datagram goes
\* out and its length is returned, or -1 is
SendFrame ==
  /\ pc = "send"
  /\ \E ok \in BOOLEAN :
       /\ Error' = IF ok THEN iov_len ELSE -1
       /\ obs' = IF ok
                 THEN [obs EXCEPT !.lastSeq = Get32(UDPBuffer, 0),
                                  !.owed = @ \ obs.carried,
                                  !.carried = {},
                                  !.restartPending = @ /\ ~obs.cycle.restart,
                                  !.afterStop = IF SDRActive THEN @ ELSE @ + 1,
                                  !.last = [sent |-> TRUE, buf |-> UDPBuffer,
                                            len |-> iov_len,
                                            dest |-> MsgName(DestAddr, reply_addr),
                                            sock |-> Socketid,
                                            after |-> obs.lastSeq,
                                            restart |-> obs.cycle.restart,
                                            cycle |-> obs.cycle,
                                            prev |-> obs.prevCycle]]
                 ELSE [obs EXCEPT !.fails = @ + 1, !.carried = {}]
  /\ pc' = "atu"
  /\ UNCHANGED <<Active, ctlVars, hwVars, sockVars, InitError, SequenceCounter,
                 UDPBuffer, iov_len, DestAddr, PTTBits, Byte, FIFOOverflows,
                 SleepCount, CmdTmp, ThreadError, GlobalFIFOOverflows>>

\* a tune request that follows bit 2 instead of inverting it
ATUBitNotInverted(b) == Bit(b, 2)

\* Byte = ((Byte >> 2) & 1) ^1
ATUBit(b) == 1 - Bit(b, 2)

\* RequestATUTune(ATUTuneRequest); if(Error == -1) InitError=true
ATUAndError ==
  /\ pc = "atu"
  /\ Byte' = ATUBit(Byte)
  /\ InitError' = (InitError \/ Error = -1)
  /\ pc' = "budget"
  /\ obs' = [obs EXCEPT !.atuCalls = @ + 1, !.atuValue = (ATUBit(Byte) # 0)]
  /\ UNCHANGED <<Active, ctlVars, hwVars, sockVars, SequenceCounter, UDPBuffer,
                 iov_len, DestAddr, PTTBits, FIFOOverflows, Error, SleepCount,
                 CmdTmp, ThreadError, GlobalFIFOOverflows>>

\* a keyed budget one tick longer
SleepBudgetLonger(mox) == (IF mox THEN SleepShort + 1 ELSE SleepLong) % Byte8

\* (MOXAsserted)? 2: 400, assigned to the uint8_t SleepCount
SleepBudget(mox) == (IF mox THEN SleepShort ELSE SleepLong) % Byte8

\* SleepCount = (MOXAsserted)? 2: 400
ChooseBudget ==
  /\ pc = "budget"
  /\ SleepCount' = SleepBudget(MOXAsserted)
  /\ pc' = "wait"
  /\ obs' = [obs EXCEPT !.ticks = 0, !.waitEnd = "none",
                        !.waitMOX = MOXAsserted]
  /\ UNCHANGED <<Active, ctlVars, hwVars, sockVars, InitError, SequenceCounter,
                 UDPBuffer, iov_len, DestAddr, PTTBits, Byte, FIFOOverflows,
                 Error, CmdTmp, ThreadError, GlobalFIFOOverflows>>

\* a wait that never runs out
WaitMoreAlways(count) == TRUE

\* SleepCount-- > 0: the test
WaitMore(count) == count > 0

\* a wait that does not look at the key bits
KeyChangedNever(now, captured) == FALSE

\* (uint8_t)GetP2PTTKeyInputs() != PTTBits
KeyChanged(now, captured) == (now % Byte8) # captured

\* one turn of: while (SleepCount-- > 0) { ReadStatusRegister();
\* if ((uint8_t)GetP2PTTKeyInputs() != PTTBits) break; usleep(500); }
WaitTick ==
  /\ pc = "wait"
  /\ SleepCount' = (SleepCount + Byte8 - 1) % Byte8
  /\ IF ~WaitMore(SleepCount)
     THEN /\ pc' = "loop"
          /\ obs' = [obs EXCEPT !.waitEnd = "budget"]
     ELSE IF KeyChanged(hwKey, PTTBits)
     THEN /\ pc' = "loop"
          /\ obs' = [obs EXCEPT !.waitEnd = "key"]
     ELSE /\ pc' = "wait"
          /\ obs' = [obs EXCEPT !.ticks = @ + 1,
                                !.stale = IF ~SDRActive /\ @ < MaxStale THEN @ + 1 ELSE @]
  /\ UNCHANGED <<Active, ctlVars, hwVars, sockVars, InitError, SequenceCounter,
                 UDPBuffer, iov_len, DestAddr, PTTBits, Byte, FIFOOverflows,
                 Error, CmdTmp, ThreadError, GlobalFIFOOverflows>>

\* a shutdown that does not flag the error
RaiseFaultNever(fault, err) == fault

\* if(InitError) ThreadError = true: the value ThreadError has afterwards
RaiseFault(fault, err) == IF err THEN TRUE ELSE fault

\* if(InitError) ThreadError = true
Tidy ==
  /\ pc = "tidy"
  /\ ThreadError' = RaiseFault(ThreadError, InitError)
  /\ pc' = "closeexit"
  /\ obs' = [obs EXCEPT !.errSets = IF InitError THEN @ + 1 ELSE @]
  /\ UNCHANGED <<Active, ctlVars, hwVars, sockVars, localVars,
                 GlobalFIFOOverflows>>

\* close(ThreadData->Socketid)
CloseOnExit ==
  /\ pc = "closeexit"
  /\ sockOpen' = FALSE
  /\ pc' = "deactivate"
  /\ UNCHANGED <<Active, ctlVars, hwVars, Socketid, sockPort, localVars,
                 ThreadError, GlobalFIFOOverflows, obs>>

\* ThreadData->Active = false; return NULL
Deactivate ==
  /\ pc = "deactivate"
  /\ Active' = FALSE
  /\ pc' = "done"
  /\ UNCHANGED <<ctlVars, hwVars, sockVars, localVars, ThreadError,
                 GlobalFIFOOverflows, obs>>

Worker ==
  \/ ThreadStart \/ IdleCheck \/ CmdCheck \/ CloseOld \/ MakeSocket
  \/ ClearCmdLoad \/ ClearCmdStore \/ StartRun \/ CopyAddr \/ MainLoop
  \/ BuildFrame \/ ReadFIFOs \/ ReadSticky \/ ClearSticky \/ SendFrame
  \/ ATUAndError \/ ChooseBudget \/ WaitTick
  \/ Tidy \/ CloseOnExit \/ Deactivate

\* ------------------------------------------------------ the environment
threadVars ==
  <<pc, Active, sockVars, ThreadError, localVars>>

\* the controller starts the radio
CtlStart ==
  /\ ~SDRActive
  /\ obs.starts < MaxStarts
  /\ SDRActive' = TRUE
  /\ obs' = [obs EXCEPT !.starts = @ + 1, !.restartPending = obs.starts > 0,
                        !.afterStop = 0, !.stale = 0]
  /\ UNCHANGED <<threadVars, Cmdid, Portid, MOXAsserted, reply_addr, hwVars,
                 GlobalFIFOOverflows>>

\* the controller starts the radio, once
CtlStartOnce == obs.starts = 0 /\ CtlStart

\* the controller stops the radio
CtlStop ==
  /\ SDRActive
  /\ SDRActive' = FALSE
  /\ UNCHANGED <<threadVars, Cmdid, Portid, MOXAsserted, reply_addr, hwVars,
                 GlobalFIFOOverflows, obs>>

\* the controller stores a new port and sets the change-port command bit
CtlChangePort ==
  /\ obs.cmds < MaxCmds
  /\ \E p \in Ports : Portid' = p
  /\ Cmdid' = BitOr(Cmdid, VBITCHANGEPORT)
  /\ obs' = [obs EXCEPT !.cmds = @ + 1]
  /\ UNCHANGED <<threadVars, SDRActive, MOXAsserted, reply_addr, hwVars,
                 GlobalFIFOOverflows>>

\* the controller sets another command bit of the same word, once
CtlOtherCmd ==
  /\ ~obs.otherCmd
  /\ Cmdid' = BitOr(Cmdid, VBITOTHERCMD)
  /\ obs' = [obs EXCEPT !.otherCmd = TRUE]
  /\ UNCHANGED <<threadVars, Portid, SDRActive, MOXAsserted, reply_addr, hwVars,
                 GlobalFIFOOverflows>>

\* the PC's address changes
CtlReplyAddr ==
  /\ \E a \in Addrs \ {reply_addr} : reply_addr' = a
  /\ UNCHANGED <<threadVars, Cmdid, Portid, SDRActive, MOXAsserted, hwVars,
                 GlobalFIFOOverflows, obs>>

\* the transmitter is keyed or unkeyed
CtlMOX ==
  /\ MOXAsserted' = ~MOXAsserted
  /\ UNCHANGED <<threadVars, Cmdid, Portid, SDRActive, reply_addr, hwVars,
                 GlobalFIFOOverflows, obs>>

\* the key/PTT inputs change
HwKey ==
  /\ obs.keyChanges < MaxKeyChanges
  /\ \E k \in KeyVals \ {hwKey} : hwKey' = k
  /\ obs' = [obs EXCEPT !.keyChanges = @ + 1]
  /\ UNCHANGED <<threadVars, ctlVars, hwUserIO, hwFifo, hwADC, hwAnalogue,
                 GlobalFIFOOverflows>>

\* the user inputs change
HwUserIO ==
  /\ \E u \in UserIOVals \ {hwUserIO} : hwUserIO' = u
  /\ UNCHANGED <<threadVars, ctlVars, hwKey, hwFifo, hwADC, hwAnalogue,
                 GlobalFIFOOverflows, obs>>

\* a FIFO raises one of its flags, which stays latched until read
HwFifoFlag ==
  /\ obs.fifoEvents < MaxFifoEvents
  /\ \E c \in DMAChannels, f \in FlagNames :
       /\ ~hwFifo[c].flags[f]
       /\ hwFifo' = [hwFifo EXCEPT ![c].flags[f] = TRUE]
  /\ obs' = [obs EXCEPT !.fifoEvents = @ + 1]
  /\ UNCHANGED <<threadVars, ctlVars, hwKey, hwUserIO, hwADC, hwAnalogue,
                 GlobalFIFOOverflows>>

\* a FIFO fills or drains
HwFifoDepth ==
  /\ obs.fifoEvents < MaxFifoEvents
  /\ \E c \in DMAChannels :
       \E d \in DepthVals \ {hwFifo[c].depth} :
         hwFifo' = [hwFifo EXCEPT ![c].depth = d]
  /\ obs' = [obs EXCEPT !.fifoEvents = @ + 1]
  /\ UNCHANGED <<threadVars, ctlVars, hwKey, hwUserIO, hwADC, hwAnalogue,
                 GlobalFIFOOverflows>>

\* the monitor reports a large raw value for a channel, just before the
\* thread reads it
HwFifoDepthWide ==
  /\ pc = "fifo"
  /\ obs.fifoEvents < MaxFifoEvents
  /\ \E c \in DMAChannels :
       \E d \in WideDepthVals \ {hwFifo[c].depth} :
         hwFifo' = [hwFifo EXCEPT ![c].depth = d]
  /\ obs' = [obs EXCEPT !.fifoEvents = @ + 1]
  /\ UNCHANGED <<threadVars, ctlVars, hwKey, hwUserIO, hwADC, hwAnalogue,
                 GlobalFIFOOverflows>>

\* another thread: GlobalFIFOOverflows |= bit
OtherSetSticky ==
  /\ obs.stickySets < MaxStickySets
  /\ \E b \in StickyBits :
       /\ GlobalFIFOOverflows' = BitOr(GlobalFIFOOverflows, b)
       /\ obs' = [obs EXCEPT !.stickySets = @ + 1,
                             !.owed = @ \cup {b},
                             !.carried = @ \ {b}]
  /\ UNCHANGED <<threadVars, ctlVars, hwVars>>

\* ------------------------------------------------------- specifications
\* The lifecycle: the controller starts and stops the radio and commands
\* port changes; the transmitter is keyed, so every wait is the short one.
InitKeyed == Init /\ MOXAsserted
\* the same, the thread starting with a change-port command pending
InitKeyedCmd == InitKeyed /\ Cmdid = VBITCHANGEPORT
Next == Worker \/ CtlStart \/ CtlStop \/ CtlChangePort
Spec == InitKeyed /\ [][Next]_vars

\* The wait between frames: the transmitter is keyed and unkeyed and the
\* key/PTT inputs change, while the controller starts the radio and stops it;
\* the thread starts unkeyed, with a change-port command pending.
InitUnkeyed == Init /\ ~MOXAsserted /\ Cmdid = VBITCHANGEPORT
NextWait == Worker \/ CtlStartOnce \/ CtlStop \/ CtlMOX \/ HwKey
SpecWait == InitUnkeyed /\ [][NextWait]_vars

\* The FIFO monitor: the FIFOs raise flags while the radio, once started,
\* runs; the transmitter is keyed and no other thread touches the sticky
\* byte.
NextFifo == Worker \/ CtlStartOnce \/ HwFifoFlag
SpecFifo == InitKeyedCmd /\ [][NextFifo]_vars

\* The FIFO depths: the FIFOs fill and drain while the radio, once started,
\* runs.
NextDepth == Worker \/ CtlStartOnce \/ HwFifoDepth
SpecDepth == InitKeyedCmd /\ [][NextDepth]_vars

\* The mask byte: the FIFOs raise flags and other threads OR bits into
\* GlobalFIFOOverflows while the radio, once started, runs. A flag stays
\* latched until the monitor is read and a sticky bit stays set until the
\* byte is cleared, so each is taken at the last moment before the thread
\* reads it: what the thread reads is the same as had it come earlier. The
\* two kinds of event share the budget MaxFifoEvents.
MaskEventLeft == obs.fifoEvents + obs.stickySets < MaxFifoEvents
FlagBeforeRead == pc = "fifo" /\ MaskEventLeft /\ HwFifoFlag
StickyBeforeRead == pc = "sticky" /\ MaskEventLeft /\ OtherSetSticky
NextMask == Worker \/ CtlStartOnce \/ FlagBeforeRead \/ StickyBeforeRead
SpecMask == InitKeyedCmd /\ [][NextMask]_vars

\* The ATU relay: the user inputs change while the controller starts the
\* radio and stops it.
NextATU == Worker \/ CtlStartOnce \/ CtlStop \/ HwUserIO
SpecATU == InitKeyedCmd /\ [][NextATU]_vars

\* The stream of frames under the fairness the scheduler gives the thread:
\* the radio, once started, stays on, while the transmitter is keyed and
\* unkeyed and the key/PTT inputs change.
NextLive == Worker \/ CtlStartOnce \/ CtlMOX \/ HwKey
SpecLive == InitUnkeyed /\ [][NextLive]_vars /\ WF_vars(Worker)

\* The command word: the controller commands port changes and sets another
\* command bit, at any time, while the radio is started once.
NextCmd == Worker \/ CtlStartOnce \/ CtlChangePort \/ CtlOtherCmd
SpecCmd == InitKeyed /\ [][NextCmd]_vars

\* The destination address: the PC's address changes while the controller
\* starts the radio and stops it.
NextAddr == Worker \/ CtlStart \/ CtlStop \/ CtlReplyAddr
SpecAddr == InitKeyedCmd /\ [][NextAddr]_vars

\* The sample counts at the edge of 16 bits: the monitor reports large raw
\* values while the radio, once started, runs.
NextTrunc == Worker \/ CtlStartOnce \/ HwFifoDepthWide
SpecTrunc == InitKeyedCmd /\ [][NextTrunc]_vars

\* The sticky overflow byte: other threads OR bits into GlobalFIFOOverflows
\* while the controller starts and stops the radio; the transmitter is keyed.
NextSticky == Worker \/ CtlStart \/ CtlStop \/ OtherSetSticky
SpecSticky == InitKeyedCmd /\ [][NextSticky]_vars

\* The command handler under the fairness the scheduler gives the thread (it
\* is not starved): the controller starts the radio and stops it and commands
\* port changes.
NextFair == Worker \/ CtlStartOnce \/ CtlStop \/ CtlChangePort
SpecFair == InitKeyed /\ [][NextFair]_vars /\ WF_vars(Worker)

\* ---------------------------------------------------------- properties

\* the sequence number of a datagram, as the receiver reads it
FrameSeq(frame) == Get32(frame.buf, 0)

\* C1: within one Running episode, the sequence number in bytes 0..3 of a
\* sent frame is that of the frame sent before it plus 1 (mod 2^32).
C1_SequenceStepsByOne ==
  (obs.last.sent /\ obs.last.after # NoSeq)
    => FrameSeq(obs.last) = Inc32(obs.last.after)

\* three frames of one episode have been sent, the third after the second
C1_Witness ==
  /\ obs.last.sent
  /\ obs.last.after = U32(0, 1)
  /\ FrameSeq(obs.last) = U32(0, 2)

\* C2: after the controller has driven SDRActive true -> false -> true, the
\* first frame the thread builds and sends carries sequence number 0.
C2_RestartSendsZero ==
  (obs.last.sent /\ obs.last.restart) => FrameSeq(obs.last) = Zero32

\* C3: when a poll of the wait finds the key/PTT bits different from
\* PTTBits, the wait ends there, with no further usleep(500), whatever is
\* left of SleepCount; and the loop condition that follows builds the next
\* frame when SDRActive is still true and no send has failed.
C3_KeyChangeEndsWait ==
  [][/\ (pc = "wait" /\ SleepCount' # SleepCount /\ SleepCount > 0
           /\ (hwKey % Byte8) # PTTBits)
         => (pc' = "loop" /\ obs'.ticks = obs.ticks /\ obs'.waitEnd = "key")
     /\ (pc = "loop" /\ pc' # "loop" /\ SDRActive /\ ~InitError)
         => pc' = "build"]_vars

\* a long wait cut short by a key change, budget left
C3_Witness ==
  /\ pc = "loop"
  /\ obs.waitEnd = "key"
  /\ ~obs.waitMOX
  /\ obs.ticks >= 1
  /\ SleepCount > 100

\* C4: after a sendmsg failure no further frame is built or sent, and
\* ThreadError is written true once, no more, by the time the thread ends.
C4_SendFailureHalts ==
  /\ obs.fails <= 1
  /\ obs.errSets <= obs.fails
  /\ obs.fails = 1 => ~obs.builtAfterFail
  /\ obs.fails = 1 => pc \notin {"build", "fifo", "sticky", "clrsticky", "send"}
  /\ (obs.fails = 1 /\ pc \in {"closeexit", "deactivate", "done"})
       => (obs.errSets = 1 /\ ThreadError)

\* a send has failed and the thread has ended
C4_Witness ==
  /\ pc = "done"
  /\ obs.fails = 1
  /\ obs.errSets = 1
  /\ ThreadError

\* bit 0 of Cmdid, the change-port command, is set
CmdBitSet == Cmdid % 2 = 1

\* the thread is between the commands of its handler
InHandler == pc \in {"mksock", "clrload", "clrstore"}

IsRunning == obs.phase = Running \/ (obs.seenActive /\ obs.phase = ArmedWaiting)

\* C6: while the thread is Running its socket is not closed or replaced and
\* a pending change-port bit stays set; the handler's close is made only
\* when the thread has read SDRActive false.
C6_NoPortChangeWhileRunning ==
  [][IsRunning =>
       /\ UNCHANGED sockVars
       /\ CmdBitSet => CmdBitSet'
       /\ obs'.closes = obs.closes]_vars

\* a command given during Running is pending, the socket as it was
C6_Witness ==
  /\ obs.phase = Running
  /\ pc = "wait"
  /\ obs.cmds = 1
  /\ CmdBitSet
  /\ Portid = 1025
  /\ sockPort = 1024
  /\ sockOpen

\* C11: once the controller has set SDRActive false, and while it stays
\* false, the thread sends at most the one frame it was building when the
\* flag changed, and none after its next read of the flag; that read takes it
\* to ArmedWaiting holding the socket, open, that it sent the episode's frames
\* on.
C11_StopHaltsSending ==
  /\ [](~SDRActive => obs.afterStop <= 1)
  /\ []((~SDRActive /\ ~obs.seenActive) =>
          pc \notin {"build", "fifo", "sticky", "clrsticky", "send"})
  /\ [][(pc = "loop" /\ pc' # "loop" /\ ~SDRActive /\ ~InitError) =>
          /\ pc' = "idle"
          /\ obs'.phase = ArmedWaiting
          /\ UNCHANGED sockVars
          /\ sockOpen
          /\ obs.last.sent => obs.last.sock = Socketid]_vars

\* the radio was stopped while a frame was being built: the frame has gone
\* out, the wait is over and the thread is about to read the flag
C11_Witness ==
  /\ ~SDRActive
  /\ obs.afterStop = 1
  /\ pc = "loop"
  /\ obs.phase = Running
  /\ ~InitError
  /\ sockOpen
  /\ obs.last.sent
  /\ obs.last.sock = Socketid

\* the bytes of the packet that lines 116-169 write
EncodedOffsets ==
  (0 .. 7) \cup {14, 15, 22, 23} \cup (30 .. 38) \cup {49, 50} \cup (55 .. 59)

\* C12: every frame sent is VHIGHPRIOTIYFROMSDRSIZE bytes long, and every
\* byte of it outside the fields the encoder writes (offsets 0-3, 4, 5, 6-7,
\* 14-15, 22-23, 30, 31-38, 49-50, 55-58, 59) is zero, from the first frame
\* after each start onward.
C12_FrameLengthAndZeroFill ==
  obs.last.sent =>
    /\ obs.last.len = VHIGHPRIOTIYFROMSDRSIZE
    /\ DOMAIN obs.last.buf = 0 .. (VHIGHPRIOTIYFROMSDRSIZE - 1)
    /\ \A i \in DOMAIN obs.last.buf \ EncodedOffsets : obs.last.buf[i] = 0

\* the first frame of a second episode has been sent, its fields filled in
C12_Witness ==
  /\ obs.last.sent
  /\ obs.episode = 2
  /\ obs.last.after = NoSeq
  /\ obs.last.buf[4] # 0
  /\ obs.last.buf[7] # 0
  /\ obs.last.buf[59] # 0

\* C13: for every raw FIFO depth d the monitor reports, the counts in a sent
\* frame are: DDC (offset 31) d, mic (33) d*4, DUC (35) (d*4) div 3, speaker
\* (37) d*2; a speaker depth of 10 gives 20 and a DUC depth of 9 gives 12.
C13_SampleCounts ==
  obs.last.sent =>
    LET d == obs.last.cycle.depth
        buf == obs.last.buf
    IN  /\ Get16(buf, 31) = d[eRXDDCDMA]
        /\ Get16(buf, 33) = d[eMicCodecDMA] * 4
        /\ Get16(buf, 35) = (d[eTXDUCDMA] * 4) \div 3
        /\ Get16(buf, 37) = d[eSpkCodecDMA] * 2
        /\ d[eSpkCodecDMA] = 10 => Get16(buf, 37) = 20
        /\ d[eTXDUCDMA] = 9 => Get16(buf, 35) = 12

\* a frame sent with the speaker FIFO at depth 10 and the DUC FIFO at 9
C13_Witness ==
  /\ obs.last.sent
  /\ obs.last.cycle.depth[eSpkCodecDMA] = 10
  /\ obs.last.cycle.depth[eTXDUCDMA] = 9
  /\ Get16(obs.last.buf, 37) = 20
  /\ Get16(obs.last.buf, 35) = 12

\* the thread has left its outer loop
InShutdown == pc \in {"tidy", "closeexit", "deactivate", "done"}

\* C15: once a send has failed the thread goes on to set ThreadError, then
\* to close its socket, then to set Active false and exit; whenever Active is
\* false after the thread has started, ThreadError is true and the socket is
\* closed; and from ErrorShutdown the thread never returns to ArmedWaiting
\* or Running, whatever SDRActive and Cmdid do.
C15_ErrorShutdownTerminal ==
  /\ [](/\ pc = "closeexit" => (ThreadError /\ sockOpen /\ Active)
        /\ pc = "deactivate" => (ThreadError /\ ~sockOpen /\ Active)
        /\ pc = "done" => (ThreadError /\ ~sockOpen /\ ~Active)
        /\ (pc # "init" /\ ~Active) => (ThreadError /\ ~sockOpen)
        /\ obs.phase = ErrorShutdown <=> InShutdown
        /\ InShutdown => obs.fails > 0)
  /\ [][InShutdown =>
          /\ InShutdown'
          /\ obs'.phase = ErrorShutdown
          /\ obs'.episode = obs.episode
          /\ obs'.closes = obs.closes
          /\ ~sockOpen => ~sockOpen']_vars
  /\ (obs.fails > 0) ~> (pc = "done")

\* the thread has exited after a failed send, and the controller has since
\* given a change-port command with the run flag still set
C15_Witness ==
  /\ pc = "done"
  /\ obs.phase = ErrorShutdown
  /\ ~Active
  /\ ThreadError
  /\ ~sockOpen
  /\ SDRActive
  /\ CmdBitSet
  /\ obs.cmds = MaxCmds

\* C16: after SDRActive has become false during Running the thread is back
\* in ArmedWaiting within one tick (one usleep(500)) of the change, whichever
\* wait budget was in progress.
C16_StopSeenWithinOneTick ==
  (~SDRActive /\ obs.phase = Running) => obs.stale <= 1

\* C17: in every cycle in which a frame is built RequestATUTune is called
\* once, with the value true iff bit 2 of the user I/O byte at offset 59 of
\* that frame is 0, the send having failed or not; and it is not called
\* while the thread is not Running.
C17_ATURelay ==
  /\ [](/\ (pc \in {"budget", "wait"} \/ (pc = "loop" /\ obs.built > 0))
             => /\ obs.atuCalls = 1
                /\ obs.atuValue = (Bit(UDPBuffer[59], 2) = 0)
        /\ (pc \notin {"budget", "wait", "loop"}) => obs.atuCalls = 0)
  /\ [][obs'.atuCalls > obs.atuCalls =>
          (obs.phase = Running /\ obs.seenActive /\ pc = "atu")]_vars

\* the send of a frame whose user I/O byte has bit 2 clear has failed, and a
\* tune request has been forwarded
C17_Witness ==
  /\ pc = "budget"
  /\ Error = -1
  /\ UDPBuffer[59] = 11
  /\ obs.atuCalls = 1
  /\ obs.atuValue

\* the thread is building or sending a frame
InCycle == pc \in {"build", "fifo", "sticky", "clrsticky", "send"}

\* C18: the thread builds and sends frames only while Running, a state it
\* enters only on reading SDRActive true: while it is in ArmedWaiting or has
\* last read SDRActive false, and in ErrorShutdown, no frame is sent, no FIFO
\* monitor is read and the sticky byte is not cleared.
C18_SendsOnlyWhileRunning ==
  /\ []((obs.phase # Running \/ ~obs.seenActive) => (~InCycle /\ ~obs.last.sent))
  /\ [][(obs.phase # Running \/ ~obs.seenActive) =>
          /\ \A b \in StickyBits :
               BitAnd(GlobalFIFOOverflows, b) # 0 => BitAnd(GlobalFIFOOverflows', b) # 0
          /\ hwFifo' = hwFifo
          /\ obs'.phase = Running => obs.seenActive]_vars

\* the thread is back in ArmedWaiting after an episode, and the sticky bits
\* ORed in since are all still set
C18_Witness ==
  /\ obs.phase = ArmedWaiting
  /\ ~obs.seenActive
  /\ obs.episode = 1
  /\ pc = "cmdchk"
  /\ obs.stickySets = 2
  /\ GlobalFIFOOverflows = 17

\* C19: the thread closes its socket in two places only: in the handler of
\* a change-port command, in ArmedWaiting, where opening a new socket
\* follows, and in ErrorShutdown; leaving Running for ArmedWaiting, and any
\* number of start/stop cycles without a command, leave the socket handle as
\* it was, and open.
C19_SocketClosedOnlyInTwoPlaces ==
  /\ [][(sockOpen /\ ~sockOpen') =>
          \/ /\ pc = "close"
             /\ pc' = "mksock"
             /\ obs.phase = ArmedWaiting
             /\ ~obs.seenActive
             /\ CmdBitSet
          \/ /\ pc = "closeexit"
             /\ obs.phase = ErrorShutdown]_vars
  /\ [][(pc = "mksock" /\ pc' # "mksock") =>
          (sockOpen' /\ Socketid' # Socketid /\ sockPort' = Portid)]_vars
  /\ [][(obs.phase = Running /\ obs'.phase = ArmedWaiting) =>
          (UNCHANGED sockVars /\ sockOpen)]_vars
  /\ []((obs.cmds = 0 /\ pc \notin {"deactivate", "done"}) =>
          (Socketid = 1 /\ sockOpen /\ sockPort = 1024))

\* two start/stop cycles without a command: the socket is the first one
C19_Witness ==
  /\ obs.cmds = 0
  /\ obs.episode = 2
  /\ obs.phase = ArmedWaiting
  /\ pc = "cmdchk"
  /\ ~SDRActive
  /\ Socketid = 1
  /\ sockOpen

C21_FramesKeepComing ==
  /\ [](pc = "wait" =>
          obs.ticks <= (IF obs.waitMOX THEN SleepShort ELSE SleepLong))
  /\ (pc = "wait") ~> (pc = "loop")
  /\ (pc = "wait" /\ obs.fails = 0) ~> (pc = "build" \/ ~SDRActive)
  /\ (pc = "build" /\ obs.built < MaxSeq) ~> (pc = "atu")

\* two frames have been sent, two waits have ended and the third frame is
\* about to be sent
C21_Witness ==
  /\ pc = "send"
  /\ SDRActive
  /\ obs.fails = 0
  /\ obs.built = 3
  /\ obs.lastSeq = U32(0, 1)
  /\ Get32(UDPBuffer, 0) = U32(0, 2)

\* C22: no command is lost to the unsynchronised command word: whenever the
\* controller stores a port and sets VBITCHANGEPORT, or sets another bit of
\* Cmdid, while the thread is in its close / MakeSocket / clear sequence, the
\* thread ends the sequence with a socket bound to the latest port stored
\* and with the controller's other bit still set.
C22_NoCommandLost ==
  /\ (obs.phase = ArmedWaiting /\ pc \in {"idle", "cmdchk"} /\ ~CmdBitSet)
       => (sockOpen /\ sockPort = Portid)
  /\ obs.otherCmd => BitAnd(Cmdid, VBITOTHERCMD) # 0

\* C23: every frame of a Running episode is sent to the copy of reply_addr
\* the thread took at the start of that episode: a change of reply_addr made
\* while Running leaves the frames of the episode where they went, and the
\* next start copies reply_addr anew.
C23_DestinationIsStartCopy ==
  /\ [](obs.last.sent => (obs.last.dest = obs.copied /\ obs.copied # NoAddr))
  /\ [][(pc \in {"loop", "build", "fifo", "sticky", "clrsticky", "send",
                  "atu", "budget", "wait"})
          => (DestAddr' = DestAddr /\ obs'.copied = obs.copied)]_vars
  /\ [][pc = "startrun" /\ pc' # pc => DestAddr'.port = reply_addr.port]_vars
  /\ [][pc = "copyaddr" /\ pc' # pc =>
          (DestAddr'.ip = reply_addr.ip /\ obs'.copied = DestAddr')]_vars

\* the PC's address has changed during the episode, and the second frame
\* has gone where the first went
C23_Witness ==
  /\ obs.last.sent
  /\ obs.last.after = Zero32
  /\ obs.last.dest = [port |-> 1024, ip |-> "pcA"]
  /\ reply_addr = [port |-> 1025, ip |-> "pcB"]
  /\ obs.phase = Running

\* C24: each 2-byte sample count is the 16-bit truncation of the scaled raw
\* value w: mic (w*4) mod 2^16, speaker (w*2) mod 2^16, DUC ((w*4) div 3)
\* mod 2^16, the multiplication and the division done before the
\* truncation; the count equals the scaled value exactly when the scaled
\* value is below 2^16.
C24_CountsTruncatedTo16Bits ==
  obs.last.sent =>
    LET w == obs.last.cycle.depth
        buf == obs.last.buf
        mic == w[eMicCodecDMA] * 4
        spk == w[eSpkCodecDMA] * 2
        duc == (w[eTXDUCDMA] * 4) \div 3
    IN  /\ Get16(buf, 33) = mic % 65536
        /\ Get16(buf, 37) = spk % 65536
        /\ Get16(buf, 35) = duc % 65536
        /\ Get16(buf, 33) = mic <=> mic < 65536
        /\ Get16(buf, 37) = spk <=> spk < 65536
        /\ Get16(buf, 35) = duc <=> duc < 65536

\* a frame sent with the mic FIFO at raw value 16384, whose count wraps to
\* 0, and the DUC FIFO at 65535, whose count 87380 is sent as 21844
C24_Witness ==
  /\ obs.last.sent
  /\ obs.last.cycle.depth[eMicCodecDMA] = 16384
  /\ Get16(obs.last.buf, 33) = 0
  /\ obs.last.cycle.depth[eTXDUCDMA] = 65535
  /\ Get16(obs.last.buf, 35) = 21844

\* C9: a wait chosen while MOXAsserted is false, in which no poll finds the
\* key/PTT bits changed, makes 400 calls of usleep(500).
C9_UnkeyedWaitIs400Ticks ==
  (pc = "loop" /\ obs.waitEnd = "budget" /\ ~obs.waitMOX) => obs.ticks = SleepLong

\* C10: a wait chosen while MOXAsserted is true, in which no poll finds the
\* key/PTT bits changed, makes 2 calls of usleep(500).
C10_KeyedWaitIs2Ticks ==
  (pc = "loop" /\ obs.waitEnd = "budget" /\ obs.waitMOX) => obs.ticks = SleepShort

\* a keyed wait has run to its end
C10_Witness ==
  /\ pc = "loop"
  /\ obs.waitEnd = "budget"
  /\ obs.waitMOX
  /\ obs.ticks = 2

\* the flag that makes a channel report, and the bit it reports in
PolicyFlag(c) ==
  IF c \in {eRXDDCDMA, eMicCodecDMA} THEN "OverThreshold" ELSE "Underflow"
ChannelBit(c) ==
  CASE c = eRXDDCDMA -> 1 [] c = eMicCodecDMA -> 2 [] c = eTXDUCDMA -> 4
    [] c = eSpkCodecDMA -> 8
\* the mask byte of a datagram
FrameMask(frame) == frame.buf[30]
Reported(cyc, c) == cyc.flags[c][PolicyFlag(c)]

\* C7: a flag sampled for channel C in cycle K sets C's bit in the mask of
\* cycle K's frame; and when, in cycle K+1, the flag is not sampled again
\* and the sticky byte read does not hold C's bit, the bit is 0 in cycle
\* K+1's frame.
C7_FlagInThisMaskNotNext ==
  obs.last.sent =>
    \A c \in DMAChannels :
      /\ Reported(obs.last.cycle, c)
           => BitAnd(FrameMask(obs.last), ChannelBit(c)) # 0
      /\ (/\ obs.last.prev.built
          /\ Reported(obs.last.prev, c)
          /\ ~Reported(obs.last.cycle, c)
          /\ BitAnd(obs.last.cycle.sticky, ChannelBit(c)) = 0)
           => BitAnd(FrameMask(obs.last), ChannelBit(c)) = 0

\* frame K carried the bit of a channel, frame K+1 does not
C7_Witness ==
  /\ obs.last.sent
  /\ obs.last.prev.built
  /\ \E c \in DMAChannels :
       /\ Reported(obs.last.prev, c)
       /\ BitAnd(obs.last.prev.mask, ChannelBit(c)) # 0
       /\ BitAnd(FrameMask(obs.last), ChannelBit(c)) = 0

\* the bits the flags sampled in a cycle call for: the channel's bit where
\* the flag of the channel's policy was set
PolicyBits(cyc) ==
  BitOr(BitOr(IF cyc.flags[eRXDDCDMA]["OverThreshold"] THEN 1 ELSE 0,
              IF cyc.flags[eMicCodecDMA]["OverThreshold"] THEN 2 ELSE 0),
        BitOr(IF cyc.flags[eTXDUCDMA]["Underflow"] THEN 4 ELSE 0,
              IF cyc.flags[eSpkCodecDMA]["Underflow"] THEN 8 ELSE 0))

\* C14: the mask byte (offset 30) of a sent frame is the OR of bit 0 iff the
\* DDC over-threshold flag was sampled set, bit 1 iff the mic over-threshold
\* flag was, bit 2 iff the DUC underflow flag was, bit 3 iff the speaker
\* underflow flag was, and the sticky byte as read in that cycle; no other
\* flag of any channel sets a bit.
C14_MaskIsPolicyBitsOrSticky ==
  obs.last.sent =>
    /\ FrameMask(obs.last) = BitOr(PolicyBits(obs.last.cycle), obs.last.cycle.sticky)
    /\ (PolicyBits(obs.last.cycle) = 0 /\ obs.last.cycle.sticky = 0)
         => FrameMask(obs.last) = 0

\* a frame sent in a cycle that sampled the DUC underflow flag and read the
\* sticky bit 4: both are in its mask
C14_Witness ==
  /\ obs.last.sent
  /\ obs.last.cycle.flags[eTXDUCDMA]["Underflow"]
  /\ obs.last.cycle.sticky = 16
  /\ FrameMask(obs.last) = 20

\* C8: a sticky bit another thread has ORed into GlobalFIFOOverflows is still
\* in that byte, or is in the mask of the frame about to be sent, until a
\* frame that carries it has been sent (a failed send apart).
C8_NoStickyBitDropped ==
  \A b \in obs.owed :
    \/ BitAnd(GlobalFIFOOverflows, b) # 0
    \/ b \in obs.carried
    \/ obs.fails > 0

====
